---- MODULE Spec2Model ----
(***************************************************************************)
(* Overlay components of the ionic repository: the Modal view controller   *)
(* and its ModalController factory, the legacy Modal overlay service with  *)
(* its animation registrations, and the Label directive.                   *)
(*                                                                         *)
(* JavaScript values are modelled as strings naming the value             *)
(* ("undefined", "null", "true", "false", "0", "''", "'fade-in'", ...).      *)
(* An object is a function from its possible keys to values, with Absent   *)
(* for a key the object does not own.  Objects live in a heap indexed by   *)
(* reference, so that aliasing between the caller and the instance shows.  *)
(***************************************************************************)
EXTENDS Naturals, Sequences, FiniteSets

VARIABLES
    \* ---- Modal / ModalController ----
    heap,            \* reference -> object
    pre,             \* the heap as it was when create() was entered
    args,            \* the arguments create() was called with
    ctor,            \* "none" | "ok" | "threw": outcome of the constructor
    enterAnimation,  \* Modal._enterAnimation
    leaveAnimation,  \* Modal._leaveAnimation
    isOverlay,       \* ViewController.isOverlay
    instData,        \* the reference handed to super(ModalCmp, data, null)
    nav,             \* ViewController._nav
    config,          \* the ambient configuration: key -> value
    state,           \* lifecycle state of the overlay instance
    requests,        \* calls received by the presenter (App.present), in order
    calls,           \* present() calls made on the instance, in order
    inFlight,        \* number of transitions of the instance in flight
    ret,             \* what the last getTransitionName call returned
    \* ---- legacy Modal service and animation registry ----
    loaded,          \* the modal module's top-level statements have run
    registry,        \* Animation's name -> factory mapping
    regLog,          \* every register(name, factory) call, in order
    overlays,        \* overlays created through Overlay.create, in order
    opened,          \* the opts each Modal.open call was given, in order
    \* ---- Label ----
    labelMade,       \* the Label has been constructed
    attrs,           \* the host element's attributes seen by @Attribute
    type,            \* Label.type
    labelId,         \* Label._id
    labelColor,      \* Ion._color
    labelMode,       \* Ion._mode
    elementId        \* the element's id attribute

modalVars == <<heap, pre, args, ctor, enterAnimation, leaveAnimation, isOverlay,
               instData, nav, config, state, requests, calls, inFlight, ret>>
legacyVars == <<loaded, registry, regLog, overlays, opened>>
labelVars == <<labelMade, attrs, type, labelId, labelColor, labelMode, elementId>>
vars == <<modalVars, legacyVars, labelVars>>

(***************************************************************************)
(* Bounds                                                                  *)
(***************************************************************************)
MaxPresents == 2
MaxRegs == 2
MaxOpens == 1

(***************************************************************************)
(* JavaScript values                                                       *)
(***************************************************************************)
Absent == "<absent>"
Undefined == "undefined"
Null == "null"

\* value read from obj[key]: a missing key reads as undefined
Get(obj, key) == IF obj[key] = Absent THEN Undefined ELSE obj[key]

\* obj[key] = val
Put(obj, key, val) == [obj EXCEPT ![key] = val]

\* JavaScript truthiness of the values used here
Truthy(v) == v \notin {Undefined, Null, "false", "0", "''"}

\* !!v
ToBoolean(v) == IF Truthy(v) THEN "true" ELSE "false"

\* util.isPresent: val !== undefined && val !== null
IsPresent(v) == v # Undefined /\ v # Null

(***************************************************************************)
(* Modal (ViewController) and ModalController                              *)
(***************************************************************************)
DataKeys == {"userId", "component", "opts"}
OptsKeys == {"showBackdrop", "enableBackdropDismiss", "enterAnimation", "leaveAnimation"}
EmptyData == [k \in DataKeys |-> Absent]
EmptyOpts == [k \in OptsKeys |-> Absent]

\* references: the caller's data and options objects, and the fresh {} objects
\* made by the default parameters and by data || {}
CallerData == "d0"
CallerOpts == "o0"
FreshData == "d1"
FreshOpts == "o1"

\* opts: ModalOptions = {}  (a default parameter replaces undefined only)
DefaultOpts(optsArg) == IF optsArg = Undefined THEN FreshOpts ELSE optsArg

\* data: any = {} in create(), then data = data || {} in the constructor
DefaultData(dataArg) == IF dataArg \in {Undefined, Null} THEN FreshData ELSE dataArg

ResolveShowBackdrop_NoDefault(opts) == ToBoolean(Get(opts, "showBackdrop"))

\* isPresent(opts.showBackdrop) ? !!opts.showBackdrop : true
ResolveShowBackdrop(opts) ==
    IF IsPresent(Get(opts, "showBackdrop"))
    THEN ToBoolean(Get(opts, "showBackdrop")) ELSE "true"

ResolveEnableBackdropDismiss_CopyPaste(opts) ==
    IF IsPresent(Get(opts, "showBackdrop"))
    THEN ToBoolean(Get(opts, "showBackdrop")) ELSE "true"

\* isPresent(opts.enableBackdropDismiss) ? !!opts.enableBackdropDismiss : true
ResolveEnableBackdropDismiss(opts) ==
    IF IsPresent(Get(opts, "enableBackdropDismiss"))
    THEN ToBoolean(Get(opts, "enableBackdropDismiss")) ELSE "true"

ResolvedOpts_Rebuilt(opts) ==
    Put(Put(EmptyOpts, "showBackdrop", ResolveShowBackdrop(opts)),
        "enableBackdropDismiss", ResolveEnableBackdropDismiss(opts))

\* the options object after lines 23-24 of the constructor
ResolvedOpts(opts) ==
    Put(Put(opts, "showBackdrop", ResolveShowBackdrop(opts)),
        "enableBackdropDismiss", ResolveEnableBackdropDismiss(opts))

\* data.component = component, on the object data refers to
HeapAfterData(h, component, dataRef) ==
    [h EXCEPT ![dataRef] = Put(h[dataRef], "component", component)]

\* opts.showBackdrop = ...; opts.enableBackdropDismiss = ...; data.opts = opts
HeapAfterOpts(h, dataRef, optsRef) ==
    [h EXCEPT ![optsRef] = ResolvedOpts(h[optsRef]),
              ![dataRef] = Put(h[dataRef], "opts", optsRef)]

\* new Modal(app, component, data, opts), as called by ModalController.create.
\* With opts = null line 23 throws a TypeError after line 22 has run.
ModalConstructor(component, dataArg, optsArg) ==
    LET dataRef == DefaultData(dataArg)
        optsRef == DefaultOpts(optsArg)
        h1 == HeapAfterData(heap, component, dataRef)
    IN  /\ ctor = "none"
        /\ pre' = heap
        /\ args' = [component |-> component, data |-> dataArg, opts |-> optsArg]
        /\ IF optsRef = Null
           THEN /\ heap' = h1
                /\ ctor' = "threw"
                /\ UNCHANGED <<enterAnimation, leaveAnimation, isOverlay, instData, state>>
           ELSE /\ heap' = HeapAfterOpts(h1, dataRef, optsRef)
                /\ ctor' = "ok"
                /\ instData' = dataRef
                /\ enterAnimation' = Get(heap[optsRef], "enterAnimation")
                /\ leaveAnimation' = Get(heap[optsRef], "leaveAnimation")
                /\ isOverlay' = "true"
                /\ state' = "created"
        /\ UNCHANGED <<nav, config, requests, calls, inFlight, ret>>

\* ModalController.create(component, data = {}, opts = {})
Create(component, dataArg, optsArg) ==
    /\ ModalConstructor(component, dataArg, optsArg)
    /\ UNCHANGED <<legacyVars, labelVars>>

\* this._nav && this._nav.config.get(key)
NavConfigGet(key) == IF Truthy(nav) THEN config[key] ELSE nav

TransitionName_NoNavGuard(direction) ==
    IF direction = "back"
    THEN IF Truthy(leaveAnimation) THEN leaveAnimation ELSE config["modalLeave"]
    ELSE IF Truthy(enterAnimation) THEN enterAnimation ELSE config["modalEnter"]

\* the value Modal.getTransitionName(direction) returns
TransitionName(direction) ==
    IF direction = "back"
    THEN IF Truthy(leaveAnimation) THEN leaveAnimation ELSE NavConfigGet("modalLeave")
    ELSE IF Truthy(enterAnimation) THEN enterAnimation ELSE NavConfigGet("modalEnter")

\* a call of Modal.getTransitionName(direction): it assigns nothing
GetTransitionName(direction) ==
    /\ ctor = "ok"
    /\ ret' = [direction |-> direction, value |-> TransitionName(direction)]
    /\ UNCHANGED <<heap, pre, args, ctor, enterAnimation, leaveAnimation, isOverlay,
                   instData, nav, config, state, requests, calls, inFlight>>
    /\ UNCHANGED <<legacyVars, labelVars>>

\* AppPortal.MODAL, the overlay classification handed to the presenter
AppPortalMODAL == "AppPortal.MODAL"

\* the instance (there is one Modal in the model)
This == "modal"

PresentRequest_NoDefault(navOptions) ==
    [view |-> This, navOptions |-> navOptions, kind |-> AppPortalMODAL,
     status |-> "pending"]

\* the arguments of this._app.present(this, navOptions, AppPortal.MODAL), with
\* navOptions: NavOptions = {}, and the pending completion signal it answers with
PresentRequest(navOptions) ==
    [view |-> This,
     navOptions |-> IF navOptions = Undefined THEN "{}" ELSE navOptions,
     kind |-> AppPortalMODAL,
     status |-> "pending"]

\* App.present(view, navOptions, kind): the presenter takes the request and
\* answers with a completion signal, identified by the request's position
AppPresent(request) == Append(requests, request)

\* Modal.present(navOptions = {}): return this._app.present(...)
Present(navOptions) ==
    /\ ctor = "ok"
    /\ Len(calls) < MaxPresents
    /\ requests' = AppPresent(PresentRequest(navOptions))
    /\ calls' = Append(calls, [navOptions |-> navOptions, promise |-> Len(requests')])
    /\ UNCHANGED <<heap, pre, args, ctor, enterAnimation, leaveAnimation, isOverlay,
                   instData, nav, config, state, inFlight, ret>>
    /\ UNCHANGED <<legacyVars, labelVars>>

\* the presenter mounts the view and starts its enter transition
PresenterBegin(i) ==
    /\ i \in 1..Len(requests)
    /\ requests[i].status = "pending"
    /\ requests' = [requests EXCEPT ![i].status = "started"]
    /\ state' = "presenting"
    /\ nav' = "nav"
    /\ inFlight' = inFlight + 1
    /\ UNCHANGED <<heap, pre, args, ctor, enterAnimation, leaveAnimation, isOverlay,
                   instData, config, calls, ret>>
    /\ UNCHANGED <<legacyVars, labelVars>>

\* the presenter reports a failure (for instance a busy navigation stack)
PresenterReject(i) ==
    /\ i \in 1..Len(requests)
    /\ requests[i].status = "pending"
    /\ requests' = [requests EXCEPT ![i].status = "rejected"]
    /\ UNCHANGED <<heap, pre, args, ctor, enterAnimation, leaveAnimation, isOverlay,
                   instData, nav, config, state, calls, inFlight, ret>>
    /\ UNCHANGED <<legacyVars, labelVars>>

\* the enter transition finishes and the completion signal resolves
PresenterComplete(i) ==
    /\ i \in 1..Len(requests)
    /\ requests[i].status = "started"
    /\ requests' = [requests EXCEPT ![i].status = "resolved"]
    /\ state' = "presented"
    /\ inFlight' = inFlight - 1
    /\ UNCHANGED <<heap, pre, args, ctor, enterAnimation, leaveAnimation, isOverlay,
                   instData, nav, config, calls, ret>>
    /\ UNCHANGED <<legacyVars, labelVars>>

\* ViewController.dismiss(): the leave transition starts
Dismiss ==
    /\ state = "presented"
    /\ state' = "dismissing"
    /\ inFlight' = inFlight + 1
    /\ UNCHANGED <<heap, pre, args, ctor, enterAnimation, leaveAnimation, isOverlay,
                   instData, nav, config, requests, calls, ret>>
    /\ UNCHANGED <<legacyVars, labelVars>>

\* the leave transition finishes and the view is destroyed; whether the
\* navigation object stays attached is the presenter's business
DismissComplete ==
    /\ state = "dismissing"
    /\ state' = "dismissed"
    /\ inFlight' = inFlight - 1
    /\ nav' \in {nav, Null}
    /\ UNCHANGED <<heap, pre, args, ctor, enterAnimation, leaveAnimation, isOverlay,
                   instData, config, requests, calls, ret>>
    /\ UNCHANGED <<legacyVars, labelVars>>

(***************************************************************************)
(* Legacy Modal service (Overlay) and the animation registry               *)
(***************************************************************************)
AnimNames == {"modal-slide-in", "modal-slide-out", "my-fade-in"}
Factories == {"ModalSlideIn", "ModalSlideOut", "MyFadeIn"}
NoFactory == "none"
LegacyKeys == {"enterAnimation", "leaveAnimation", "handle"}

\* const OVERLAY_TYPE = 'modal'
OVERLAY_TYPE == "modal"

Register_FirstWins(reg, name, factory) ==
    IF reg[name] = NoFactory THEN [reg EXCEPT ![name] = factory] ELSE reg

\* Animation.register(name, factory): store factory under name
Register(reg, name, factory) == [reg EXCEPT ![name] = factory]

\* the module's top-level Animation.register statements, in order
ModuleRegistrations ==
    << <<"modal-slide-in", "ModalSlideIn">>, <<"modal-slide-out", "ModalSlideOut">> >>

\* the module is loaded: its register statements run one after the other
ModuleLoad ==
    /\ ~loaded
    /\ loaded' = TRUE
    /\ registry' = Register(Register(registry, ModuleRegistrations[1][1],
                                     ModuleRegistrations[1][2]),
                            ModuleRegistrations[2][1], ModuleRegistrations[2][2])
    /\ regLog' = regLog \o ModuleRegistrations
    /\ UNCHANGED <<overlays, opened>>
    /\ UNCHANGED <<modalVars, labelVars>>

\* a register call made by any other module or by the application
RegisterCall(name, factory) ==
    /\ Len(regLog) < MaxRegs + (IF loaded THEN Len(ModuleRegistrations) ELSE 0)
    /\ registry' = Register(registry, name, factory)
    /\ regLog' = Append(regLog, <<name, factory>>)
    /\ UNCHANGED <<loaded, overlays, opened>>
    /\ UNCHANGED <<modalVars, labelVars>>

ModalDefaults_Swapped ==
    [enterAnimation |-> "modal-slide-out", leaveAnimation |-> "modal-slide-in",
     handle |-> Absent]

\* let defaults = { enterAnimation: 'modal-slide-in', leaveAnimation: 'modal-slide-out' }
ModalDefaults ==
    [enterAnimation |-> "modal-slide-in", leaveAnimation |-> "modal-slide-out",
     handle |-> Absent]

\* util.extend(dst, src): every own key of src is copied onto dst
Extend(dst, src) == [k \in DOMAIN dst |-> IF src[k] # Absent THEN src[k] ELSE dst[k]]

\* Overlay.create(overlayType, ComponentType, opts): the overlay that is made
OverlayCreate(overlayType, componentType, opts) ==
    [type |-> overlayType, component |-> componentType, opts |-> opts]

\* the objects a caller hands to open(); opts = {} replaces a missing argument
LegacyOpts ==
    {[enterAnimation |-> e, leaveAnimation |-> l, handle |-> h] :
        e \in {Absent, Undefined, "my-fade-in"},
        l \in {Absent, "my-fade-out"},
        h \in {Absent, "my-modal"}}

\* Modal.open(ComponentType, opts = {})
Open(componentType, opts) ==
    /\ loaded
    /\ Len(overlays) < MaxOpens
    /\ overlays' = Append(overlays,
                          OverlayCreate(OVERLAY_TYPE, componentType,
                                        Extend(ModalDefaults, opts)))
    /\ opened' = Append(opened, opts)
    /\ UNCHANGED <<loaded, registry, regLog>>
    /\ UNCHANGED <<modalVars, labelVars>>

(***************************************************************************)
(* Label                                                                   *)
(***************************************************************************)
\* @Attribute gives null for a missing attribute, '' for a bare one
AttrValues == {Null, "''", "'true'"}
AttrNames == {"floating", "stacked", "fixed", "inset"}

LabelType_FixedFirst(isFloating, isStacked, isFixed, isInset) ==
    IF isFloating = "''" THEN "floating"
    ELSE IF isFixed = "''" THEN "fixed"
    ELSE IF isStacked = "''" THEN "stacked"
    ELSE IF isInset = "''" THEN "inset"
    ELSE Null

\* (isFloating === '' ? 'floating' : (isStacked === '' ? 'stacked' :
\*     (isFixed === '' ? 'fixed' : (isInset === '' ? 'inset' : null))))
LabelType(isFloating, isStacked, isFixed, isInset) ==
    IF isFloating = "''" THEN "floating"
    ELSE IF isStacked = "''" THEN "stacked"
    ELSE IF isFixed = "''" THEN "fixed"
    ELSE IF isInset = "''" THEN "inset"
    ELSE Null

\* new Label(config, elementRef, renderer, isFloating, isStacked, isFixed, isInset)
LabelConstructor ==
    /\ ~labelMade
    /\ labelMade' = TRUE
    /\ type' = LabelType(attrs["floating"], attrs["stacked"], attrs["fixed"],
                         attrs["inset"])
    /\ UNCHANGED <<attrs, labelId, labelColor, labelMode, elementId>>
    /\ UNCHANGED <<modalVars, legacyVars>>

InputValues == {Undefined, "''", "'primary'"}

\* set color(val) { this._setColor(val); }
SetColor(val) ==
    /\ labelMade
    /\ labelColor' = val
    /\ UNCHANGED <<labelMade, attrs, type, labelId, labelMode, elementId>>
    /\ UNCHANGED <<modalVars, legacyVars>>

\* set mode(val) { this._setMode(val); }
SetMode(val) ==
    /\ labelMade
    /\ labelMode' = val
    /\ UNCHANGED <<labelMade, attrs, type, labelId, labelColor, elementId>>
    /\ UNCHANGED <<modalVars, legacyVars>>

\* set id(val) { this._id = val; if (val) { this.setElementAttribute('id', val); } }
SetId(val) ==
    /\ labelMade
    /\ labelId' = val
    /\ elementId' = IF Truthy(val) THEN val ELSE elementId
    /\ UNCHANGED <<labelMade, attrs, type, labelColor, labelMode>>
    /\ UNCHANGED <<modalVars, legacyVars>>

(***************************************************************************)
(* Initial states and specifications                                       *)
(***************************************************************************)
\* what the caller may hold in its data object before create()
CallerDataObjects ==
    {[userId |-> u, component |-> c, opts |-> Absent] :
        u \in {Absent, "8675309"}, c \in {Absent, "'Stale'"}}

BackdropValues == {Absent, Undefined, Null, "true", "false", "0", "'yes'"}
AnimationValues == {Absent, "''", "'fade'"}

\* option records with every combination of the two backdrop fields
BackdropOpts ==
    {[showBackdrop |-> s, enableBackdropDismiss |-> e, enterAnimation |-> a,
      leaveAnimation |-> Absent] :
        s \in BackdropValues, e \in BackdropValues, a \in {Absent, "'fade'"}}

\* option records with every combination of the two animation fields
AnimationOpts ==
    {[showBackdrop |-> s, enableBackdropDismiss |-> Absent, enterAnimation |-> a,
      leaveAnimation |-> l] :
        s \in {"false"}, a \in AnimationValues, l \in AnimationValues}

Configs ==
    {[modalEnter |-> "'cfg-in'", modalLeave |-> "'cfg-out'"],
     [modalEnter |-> Undefined, modalLeave |-> "'cfg-out'"]}

Components == {"CompA"}
DataArgs == {CallerData, Undefined, Null}
OptsArgs == {CallerOpts, Undefined, Null}
Directions == {"back", "forward", Undefined}
NavOptionsArgs == {Undefined, "{animate:false}"}

ModalIdle ==
    /\ pre = heap
    /\ args = [component |-> Undefined, data |-> Undefined, opts |-> Undefined]
    /\ ctor = "none"
    /\ enterAnimation = Undefined
    /\ leaveAnimation = Undefined
    /\ isOverlay = Undefined
    /\ instData = Undefined
    /\ nav = Undefined
    /\ state = "none"
    /\ requests = <<>>
    /\ calls = <<>>
    /\ inFlight = 0
    /\ ret = [direction |-> "none", value |-> "none"]

ModalInit(dataObjects, optsObjects, configs) ==
    /\ heap \in {[r \in {CallerData, CallerOpts, FreshData, FreshOpts} |->
                    CASE r = CallerData -> d
                      [] r = CallerOpts -> o
                      [] r = FreshData -> EmptyData
                      [] r = FreshOpts -> EmptyOpts] :
                 d \in dataObjects, o \in optsObjects}
    /\ config \in configs
    /\ ModalIdle

LegacyInit ==
    /\ loaded = FALSE
    /\ registry = [n \in AnimNames |-> NoFactory]
    /\ regLog = <<>>
    /\ overlays = <<>>
    /\ opened = <<>>

LabelIdle ==
    /\ labelMade = FALSE
    /\ type = Undefined
    /\ labelId = Undefined
    /\ labelColor = Undefined
    /\ labelMode = Undefined
    /\ elementId = Null

LabelInit(attrSets) ==
    /\ attrs \in attrSets
    /\ LabelIdle

NoLabel == [a \in AttrNames |-> Null]

\* --- the Modal's lifecycle: create, getTransitionName, present, dismiss ---
Init ==
    /\ ModalInit({[userId |-> "8675309", component |-> Absent, opts |-> Absent]},
                 AnimationOpts, Configs)
    /\ LegacyInit
    /\ LabelInit({NoLabel})

Next ==
    \/ \E c \in Components, o \in {CallerOpts, Undefined} : Create(c, CallerData, o)
    \/ \E d \in Directions : GetTransitionName(d)
    \/ \E n \in NavOptionsArgs : Present(n)
    \/ \E i \in 1..MaxPresents + 1 : PresenterBegin(i)
    \/ \E i \in 1..MaxPresents + 1 : PresenterReject(i)
    \/ \E i \in 1..MaxPresents + 1 : PresenterComplete(i)
    \/ Dismiss
    \/ DismissComplete

Spec == Init /\ [][Next]_vars

\* --- create() over every kind of data and options argument ---
InitCreate ==
    /\ ModalInit(CallerDataObjects, BackdropOpts, {[k \in {"modalEnter", "modalLeave"} |-> Undefined]})
    /\ LegacyInit
    /\ LabelInit({NoLabel})

NextCreate ==
    \E c \in Components, d \in DataArgs, o \in OptsArgs : Create(c, d, o)

SpecCreate == InitCreate /\ [][NextCreate]_vars

\* --- the animation registry and the legacy Modal.open ---
InitLegacy ==
    /\ ModalInit({EmptyData}, {EmptyOpts}, {[k \in {"modalEnter", "modalLeave"} |-> Undefined]})
    /\ LegacyInit
    /\ LabelInit({NoLabel})

NextLegacy ==
    \/ ModuleLoad
    \/ \E n \in AnimNames, f \in Factories : RegisterCall(n, f)
    \/ \E o \in LegacyOpts : Open("ContactModal", o)

SpecLegacy == InitLegacy /\ [][NextLegacy]_vars

\* --- the Label directive ---
InitLabel ==
    /\ ModalInit({EmptyData}, {EmptyOpts}, {[k \in {"modalEnter", "modalLeave"} |-> Undefined]})
    /\ LegacyInit
    /\ LabelInit([AttrNames -> AttrValues])

NextLabel ==
    \/ LabelConstructor
    \/ \E v \in InputValues : SetColor(v)
    \/ \E v \in InputValues : SetMode(v)
    \/ \E v \in InputValues : SetId(v)

SpecLabel == InitLabel /\ [][NextLabel]_vars

(***************************************************************************)
(* Properties                                                              *)
(***************************************************************************)
\* the options record create() was given ({} when none was passed), as it was
\* on entry, and the options record the new instance holds in data.opts
GivenOpts == IF args.opts = Undefined THEN EmptyOpts ELSE pre[args.opts]
InstanceOpts == heap[heap[instData]["opts"]]

\* C1: when the options given to create() have neither showBackdrop nor
\* enableBackdropDismiss (or no options were given), the instance's options
\* have both set to true.
C1_DefaultsApplied ==
    ctor = "ok" =>
        ((GivenOpts["showBackdrop"] = Absent /\ GivenOpts["enableBackdropDismiss"] = Absent)
            => (InstanceOpts["showBackdrop"] = "true"
                /\ InstanceOpts["enableBackdropDismiss"] = "true"))

C1_Witness ==
    /\ ctor = "ok"
    /\ args.opts = CallerOpts
    /\ pre[CallerOpts]["showBackdrop"] = Absent
    /\ pre[CallerOpts]["enableBackdropDismiss"] = Absent
    /\ pre[CallerOpts]["enterAnimation"] = "'fade'"
    /\ InstanceOpts["showBackdrop"] = "true"
    /\ InstanceOpts["enableBackdropDismiss"] = "true"

\* C2: a showBackdrop or enableBackdropDismiss given as false stays false in the
\* instance's options, whatever the other field is.
C2_ExplicitFalseKept ==
    ctor = "ok" =>
        \A f \in {"showBackdrop", "enableBackdropDismiss"} :
            GivenOpts[f] = "false" => InstanceOpts[f] = "false"

C2_Witness ==
    /\ ctor = "ok"
    /\ GivenOpts["showBackdrop"] = "true"
    /\ GivenOpts["enableBackdropDismiss"] = "false"
    /\ InstanceOpts["showBackdrop"] = "true"
    /\ InstanceOpts["enableBackdropDismiss"] = "false"

\* the explicit animation names the instance was created with
GivenEnter == Get(GivenOpts, "enterAnimation")
GivenLeave == Get(GivenOpts, "leaveAnimation")

\* C3 as stated: getTransitionName returns the explicit animation when set and
\* otherwise the configuration value, in every state of the instance
ClaimedTransitionName(direction) ==
    IF direction = "back"
    THEN IF Truthy(GivenLeave) THEN GivenLeave ELSE config["modalLeave"]
    ELSE IF Truthy(GivenEnter) THEN GivenEnter ELSE config["modalEnter"]

\* C3 as amended: without a navigation object the fallback is the (falsy)
\* value of the navigation field itself
AmendedTransitionName(direction) ==
    IF direction = "back"
    THEN IF Truthy(GivenLeave) THEN GivenLeave
         ELSE IF nav \in {Undefined, Null} THEN nav ELSE config["modalLeave"]
    ELSE IF Truthy(GivenEnter) THEN GivenEnter
         ELSE IF nav \in {Undefined, Null} THEN nav ELSE config["modalEnter"]

\* a step is a getTransitionName call that returned something new
ReturnsNewName == ret' # ret

InstanceUnchanged ==
    UNCHANGED <<heap, enterAnimation, leaveAnimation, isOverlay, instData, nav,
                config, state, requests, calls, inFlight>>

\* C3 (original statement): every getTransitionName(direction) call returns the
\* explicit leave/enter animation when set, else the configuration value for
\* modalLeave/modalEnter, in every state of the instance (also before it is
\* presented), and changes no state.
C3_Original ==
    /\ [](ctor = "ok" =>
            \A d \in Directions : TransitionName(d) = ClaimedTransitionName(d))
    /\ [][ReturnsNewName =>
            (ret'.value = ClaimedTransitionName(ret'.direction) /\ InstanceUnchanged)]_vars

\* C3 (amended): every getTransitionName(direction) call returns the explicit
\* leave/enter animation when it is a non-empty name; otherwise, when a
\* navigation object is attached, the configuration value for
\* modalLeave/modalEnter, and when none is attached the undefined/null value of
\* the navigation field; the call changes no state.
C3_TransitionName ==
    /\ [](ctor = "ok" =>
            \A d \in Directions : TransitionName(d) = AmendedTransitionName(d))
    /\ [][ReturnsNewName =>
            (ret'.value = AmendedTransitionName(ret'.direction) /\ InstanceUnchanged)]_vars

C3_Witness ==
    /\ ctor = "ok"
    /\ nav = "nav"
    /\ GivenLeave = "''"
    /\ GivenEnter = "'fade'"
    /\ config["modalLeave"] = "'cfg-out'"
    /\ ret = [direction |-> "back", value |-> "'cfg-out'"]

\* C4 (original statement): create() calls no presenter and leaves the
\* caller's data mapping and options record exactly as they were.
C4_Original ==
    ctor # "none" =>
        /\ requests = <<>>
        /\ heap[CallerData] = pre[CallerData]
        /\ heap[CallerOpts] = pre[CallerOpts]

\* C4 (amended): create() calls no presenter.  On the data mapping the caller
\* passed it sets component to the component and (unless the constructor
\* throws on null options) opts to the options record; on the options record
\* the caller passed it sets showBackdrop and enableBackdropDismiss to
\* booleans; every other key of both, and an object not passed, is unchanged.
C4_CreateEffects ==
    ctor # "none" =>
        /\ requests = <<>>
        /\ heap[CallerData] =
              IF args.data = CallerData
              THEN [pre[CallerData] EXCEPT
                       !["component"] = args.component,
                       !["opts"] = IF ctor = "ok" THEN DefaultOpts(args.opts) ELSE @]
              ELSE pre[CallerData]
        /\ IF args.opts = CallerOpts
           THEN /\ \A k \in OptsKeys \ {"showBackdrop", "enableBackdropDismiss"} :
                       heap[CallerOpts][k] = pre[CallerOpts][k]
                /\ heap[CallerOpts]["showBackdrop"] \in {"true", "false"}
                /\ heap[CallerOpts]["enableBackdropDismiss"] \in {"true", "false"}
           ELSE heap[CallerOpts] = pre[CallerOpts]

C4_Witness ==
    /\ ctor = "ok"
    /\ args.data = CallerData
    /\ args.opts = CallerOpts
    /\ pre[CallerData]["component"] = "'Stale'"
    /\ heap[CallerData]["component"] = "CompA"
    /\ heap[CallerData]["opts"] = CallerOpts
    /\ pre[CallerOpts]["showBackdrop"] = Absent
    /\ heap[CallerOpts]["showBackdrop"] = "true"
    /\ heap[CallerOpts]["enterAnimation"] = "'fade'"

\* C5: a present() call on an instance that has been dismissed is rejected and
\* hands the presenter no new presentation.
C5_NoPresentAfterDismissed ==
    [][state = "dismissed" => Len(requests') = Len(requests)]_vars

\* a present() of the instance has not completed yet
PresentPending ==
    \E i \in 1..Len(requests) : requests[i].status \in {"pending", "started"}

C7_PresentDelegates ==
    /\ Len(requests) = Len(calls)
    /\ \A k \in 1..Len(calls) :
          /\ requests[k].view = "modal"
          /\ requests[k].kind = "AppPortal.MODAL"
          /\ requests[k].navOptions =
                (IF calls[k].navOptions = Undefined THEN "{}" ELSE calls[k].navOptions)
          /\ calls[k].promise = k

C7_Witness ==
    /\ Len(calls) = 2
    /\ calls[1].navOptions = Undefined
    /\ requests[calls[1].promise].status = "rejected"
    /\ requests[1].navOptions = "{}"
    /\ requests[2].navOptions = "{animate:false}"

\* the factory of the latest register call for a name, none if there is none
LastRegistered(name) ==
    LET idx == {i \in 1..Len(regLog) : regLog[i][1] = name}
    IN  IF idx = {} THEN NoFactory
        ELSE regLog[CHOOSE i \in idx : \A j \in idx : j <= i][2]

\* C8: a name resolves to the factory of the most recent register call for it;
\* register calls for other names do not change it and it is never removed.
C8_LastWriteWins == \A n \in AnimNames : registry[n] = LastRegistered(n)

C8_Witness ==
    /\ loaded
    /\ \E i \in 1..Len(regLog) : \E j \in 1..Len(regLog) :
          /\ i < j
          /\ regLog[i][1] = "modal-slide-in"
          /\ regLog[j][1] = "modal-slide-in"
          /\ regLog[i][2] # regLog[j][2]
    /\ registry["modal-slide-in"] = "MyFadeIn"
    /\ registry["modal-slide-out"] = "ModalSlideOut"

\* C9: open() creates an overlay of type 'modal' whose options take every key
\* the caller supplied from the caller and an animation name the caller did not
\* supply from the defaults modal-slide-in / modal-slide-out, both of which the
\* module registered when it was loaded.
C9_OpenDefaults ==
    /\ \A i \in 1..Len(overlays) :
          /\ overlays[i].type = "modal"
          /\ \A k \in LegacyKeys :
                opened[i][k] # Absent => overlays[i].opts[k] = opened[i][k]
          /\ opened[i]["enterAnimation"] = Absent
                => overlays[i].opts["enterAnimation"] = "modal-slide-in"
          /\ opened[i]["leaveAnimation"] = Absent
                => overlays[i].opts["leaveAnimation"] = "modal-slide-out"
    /\ loaded => \A n \in {"modal-slide-in", "modal-slide-out"} :
                    /\ \E i \in 1..Len(regLog) : regLog[i][1] = n
                    /\ registry[n] # NoFactory

C9_Witness ==
    /\ Len(overlays) = 1
    /\ opened[1]["enterAnimation"] = "my-fade-in"
    /\ opened[1]["leaveAnimation"] = Absent
    /\ opened[1]["handle"] = "my-modal"
    /\ overlays[1].opts["enterAnimation"] = "my-fade-in"
    /\ overlays[1].opts["leaveAnimation"] = "modal-slide-out"
    /\ overlays[1].opts["handle"] = "my-modal"

\* the first attribute, in the order floating, stacked, fixed, inset, that is
\* present on the element; null when none is
FirstPresentAttribute ==
    LET order == <<"floating", "stacked", "fixed", "inset">>
        present == {i \in 1..4 : attrs[order[i]] = "''"}
    IN  IF present = {} THEN Null
        ELSE order[CHOOSE i \in present : \A j \in present : i <= j]

\* C10: from construction on, whatever inputs are set afterwards, the label's
\* type is the first present attribute in the order floating, stacked, fixed,
\* inset, and null when none is present.
C10_LabelType == labelMade => type = FirstPresentAttribute

C10_Witness ==
    /\ labelMade
    /\ attrs["floating"] = "'true'"
    /\ attrs["stacked"] = "''"
    /\ attrs["fixed"] = "''"
    /\ attrs["inset"] = Null
    /\ type = "stacked"
    /\ labelId = "'primary'"
    /\ labelColor = "'primary'"
    /\ labelMode = "''"

====
